---- MODULE Spec2Model ----
(***************************************************************************)
(* Model of the Godot Bridge protocol client (godot_bridge/client.py) and  *)
(* of the two command shapes that drive it (godot_bridge/main.py): the     *)
(* with-block of godot_call behind every command, and the status command.  *)
(*                                                                         *)
(* One GodotClient instance is modelled.  Its fields are ws, request_id    *)
(* and authenticated.  A socket handle is a positive number, NoSocket is   *)
(* Python's None.  The server is adversarial: every recv() delivers any    *)
(* frame of Frames, and every send()/recv() may fail.                      *)
(***************************************************************************)
EXTENDS Integers, Sequences, FiniteSets, TLC

(* ---------------------------- bounds ---------------------------------- *)
\* no call() is started on a live connection once request_id reached MaxReq
MaxReq == 3
\* connect() is not started once MaxSockets sockets have been opened
MaxSockets == 2

(* ---------------------------- values ---------------------------------- *)
NoSocket == 0

\* self.request_id = 0 in __init__
InitialRequestId == 0

Callers == {1, 2}

HelloMethod == "auth.hello"

InfoMethod == "project.get_info"

Methods == {HelloMethod, InfoMethod}

\* str(n) of a non-negative integer: its decimal digits, most significant first
RECURSIVE Str(_)
Str(n) == IF n < 10 THEN <<n>> ELSE Str(n \div 10) \o <<n % 10>>

\* int(s) of a digit string
RECURSIVE Num(_)
Num(s) == IF Len(s) = 0 THEN 0
          ELSE 10 * Num(SubSeq(s, 1, Len(s) - 1)) + s[Len(s)]

\* JSON values found under "id": a string, a number, or the key absent/null
StrId(n) == [t |-> "str", v |-> Str(n)]

IntId(n) == [t |-> "int", v |-> <<n>>]

AbsentId == [t |-> "absent", v |-> <<>>]

NoId == [t |-> "none", v |-> <<>>]

IdValues == {StrId(n) : n \in 0..(MaxReq + 1)} \cup {IntId(n) : n \in 1..2}
            \cup {AbsentId}

\* JSON values found under "error": key absent, a non-object (null, string,
\* list), or an object whose code/message/data members are each present or not
ErrMessage == "Method not found"

ErrData == "details"

AbsentError == [kind |-> "absent", code |-> {}, message |-> {}, data |-> {}]

NonObjectError == [kind |-> "nonobject", code |-> {}, message |-> {}, data |-> {}]

ObjectErrors == [kind : {"object"}, code : {{}, {-32601}},
                 message : {{}, {ErrMessage}}, data : {{}, {ErrData}}]

ErrorValues == {AbsentError, NonObjectError} \cup ObjectErrors

\* JSON values found under "result": key absent, a non-object (null, list,
\* string), or an object whose "ok" member is absent, true, false, a truthy
\* non-boolean ("no", 1) or a falsy non-boolean ("", 0)
OkValues == {"absent", "true", "false", "truthy", "falsy"}

AbsentResult == [kind |-> "absent", ok |-> "absent"]

NonObjectResult == [kind |-> "nonobject", ok |-> "absent"]

ObjectResults == [kind : {"object"}, ok : OkValues]

NoResult == [kind |-> "none", ok |-> "absent"]

ResultValues == {AbsentResult, NonObjectResult} \cup ObjectResults

EmptyMapping == [kind |-> "object", ok |-> "absent"]

\* a text frame: not JSON, JSON that is not an object, or a JSON object
MalformedFrame == [kind |-> "malformed", id |-> NoId, error |-> AbsentError,
                   result |-> AbsentResult]

NonObjectFrame == [kind |-> "nonobject", id |-> NoId, error |-> AbsentError,
                   result |-> AbsentResult]

ObjectFrames == [kind : {"object"}, id : IdValues, error : ErrorValues,
                 result : ResultValues]

NoFrame == [kind |-> "none", id |-> NoId, error |-> AbsentError,
            result |-> AbsentResult]

Frames == {MalformedFrame, NonObjectFrame} \cup ObjectFrames

\* how a call() ended: kind is "result" (value), "rpc" (code, message, data),
\* "decode", "transport", "notconnected" or "other" (any other exception)
NoOutcome == [kind |-> "none", value |-> NoResult, code |-> 0,
              message |-> "", data |-> {}]

Returned(v) == [NoOutcome EXCEPT !.kind = "result", !.value = v]

Raised(k) == [NoOutcome EXCEPT !.kind = k]

\* RPCError(error.get("code", -1), error.get("message", "Unknown error"),
\*          error.get("data"))
RPCError(error) ==
    [kind |-> "rpc", value |-> NoResult,
     code |-> IF error.code = {} THEN -1 ELSE CHOOSE c \in error.code : TRUE,
     message |-> IF error.message = {} THEN "Unknown error"
                 ELSE CHOOSE m \in error.message : TRUE,
     data |-> error.data]

\* the id test comparing the digits only, whatever the JSON type of the id
IdMatchesLoose(id, n) == id.v = Str(n)

\* response.get("id") == str(self.request_id)
IdMatches(id, n) == id = StrId(n)

\* a matching frame handled with the result looked at before the error
MatchedOutcomeResultFirst(f) ==
    IF f.result.kind # "absent" THEN Returned(f.result)
    ELSE IF f.error.kind = "object" THEN RPCError(f.error)
    ELSE IF f.error.kind = "nonobject" THEN Raised("other")
    ELSE Returned(EmptyMapping)

\* what a frame whose id matched makes call() do
MatchedOutcome(f) ==
    IF f.error.kind = "object" THEN RPCError(f.error)
    ELSE IF f.error.kind = "nonobject" THEN Raised("other")
    ELSE IF f.result.kind = "absent" THEN Returned(EmptyMapping)
    ELSE Returned(f.result)

\* result.get("ok") as a condition; a non-object result has no get()
Truthy(ok) == ok \in {"true", "truthy"}

(* ---------------------------- _load_config ---------------------------- *)
\* A string is a sequence of chunks; "" is the empty sequence.
Whitespace == {" ", "\n"}

\* ws_url = os.environ.get("GODOT_WS_URL", "ws://127.0.0.1:49631")
DefaultUrl == [scheme |-> "ws", host |-> "127.0.0.1", port |-> 49631]

Urls == {DefaultUrl,
         [scheme |-> "ws", host |-> "10.0.0.5", port |-> 49631],
         [scheme |-> "wss", host |-> "godot.example", port |-> 9000]}

\* GODOT_TOKEN unset or set
EnvTokens == {<<>>, <<"envtoken">>}

\* GODOT_TOKEN_FILE unset or set
EnvTokenFiles == {"", "godot_token.json"}

FilePort == 49700

\* what a token file holds, without surrounding whitespace: its text, what
\* json.loads makes of the text ("object", another JSON value, or not JSON),
\* and the "token" and "port" members of an object
Bodies ==
    {[chars |-> <<"{\"token\": \"filetoken\", \"port\": 49700}">>,
      json |-> "object", token |-> {<<"filetoken">>}, port |-> {FilePort}],
     [chars |-> <<"{\"token\": \"filetoken\"}">>,
      json |-> "object", token |-> {<<"filetoken">>}, port |-> {}],
     [chars |-> <<"{\"port\": 49700}">>,
      json |-> "object", token |-> {}, port |-> {FilePort}],
     [chars |-> <<"{}">>, json |-> "object", token |-> {}, port |-> {}],
     [chars |-> <<"12345">>, json |-> "scalar", token |-> {}, port |-> {}],
     [chars |-> <<"null">>, json |-> "scalar", token |-> {}, port |-> {}],
     [chars |-> <<"plain-token">>, json |-> "invalid", token |-> {}, port |-> {}],
     [chars |-> <<>>, json |-> "invalid", token |-> {}, port |-> {}]}

\* the environment and the file system _load_config reads
Envs == [ws_url : Urls, token : EnvTokens, token_file : EnvTokenFiles,
         exists : BOOLEAN, body : Bodies, pad : BOOLEAN]

\* token_path.read_text()
ReadText(e) == IF e.pad THEN <<" ">> \o e.body.chars \o <<"\n">> ELSE e.body.chars

\* str.strip()
RECURSIVE Strip(_)
Strip(x) ==
    IF Len(x) = 0 THEN x
    ELSE IF x[1] \in Whitespace THEN Strip(Tail(x))
    ELSE IF x[Len(x)] \in Whitespace THEN Strip(SubSeq(x, 1, Len(x) - 1))
    ELSE x

\* json.loads(content): the value, or "invalid" for json.JSONDecodeError
JsonLoads(content) ==
    IF \E b \in Bodies : b.chars = content /\ b.json # "invalid"
    THEN LET b == CHOOSE c \in Bodies : c.chars = content
         IN [kind |-> b.json, token |-> b.token, port |-> b.port]
    ELSE [kind |-> "invalid", token |-> {}, port |-> {}]

\* GodotConfig(ws_url=ws_url, token=token, token_file=token_file)
GodotConfig(e, url, token) ==
    [st |-> "loaded", env |-> e, ws_url |-> url, token |-> token]

\* an exception leaving _load_config (AttributeError of data.get / "in")
ConfigRaised(e) ==
    [st |-> "raised", env |-> e, ws_url |-> e.ws_url, token |-> e.token]

\* ws_url = f"ws://127.0.0.1:{data['port']}"
PortUrl(e, port) == [scheme |-> "ws", host |-> "127.0.0.1", port |-> port]

\* _load_config
LoadConfig(e) ==
    IF e.token = <<>> /\ e.token_file # "" /\ e.exists
    THEN LET content == Strip(ReadText(e))
             data == JsonLoads(content)
         IN  IF data.kind = "invalid" THEN GodotConfig(e, e.ws_url, content)
             ELSE IF data.kind # "object" THEN ConfigRaised(e)
             ELSE GodotConfig(e,
                    IF data.port # {}
                    THEN PortUrl(e, CHOOSE q \in data.port : TRUE)
                    ELSE e.ws_url,
                    IF data.token # {} THEN CHOOSE k \in data.token : TRUE
                    ELSE content)
    ELSE GodotConfig(e, e.ws_url, e.token)

\* the environment of the runs that use the client: GODOT_TOKEN is set
ClientEnv ==
    [ws_url |-> DefaultUrl, token |-> <<"envtoken">>, token_file |-> "",
     exists |-> FALSE, pad |-> FALSE,
     body |-> [chars |-> <<>>, json |-> "invalid", token |-> {}, port |-> {}]]

(* ---------------------------- state ----------------------------------- *)
VARIABLES
    ws,              \* self.ws: NoSocket or the handle of the current socket
    request_id,      \* self.request_id
    authenticated,   \* self.authenticated
    closes,          \* closes[s]: how often socket s had close() invoked
    dead,            \* sockets on which a send or recv has failed
    sent,            \* the send() calls made, in order; answered: the
                     \* server's response to the request was received
    frame,           \* frame[t]: the call() activation of caller t
    mode,            \* what drives the client: "api", "godot_call", "status",
                     \* "conc" (two threads), "config" (construction only)
    pc,              \* position of the driving program
    connect_result,  \* what the last connect() returned: "none", "true", "false"
    hello,           \* outcome of the auth.hello call of the last connect()
    rejected,        \* index in sent of the auth.hello that was answered
                     \* without a truthy ok, 0 once close()/connect() ran
    lastop,          \* the operation the API caller completed last
    ncalls,          \* number of call() invocations that found a connection
    exit_code,       \* process exit code of the command, -1 while running
    cfg              \* the environment read by _load_config, and self.config

vars == <<ws, request_id, authenticated, closes, dead, sent, frame, mode, pc,
          connect_result, hello, rejected, lastop, ncalls, exit_code, cfg>>

\* "params": params or {} of a call made without params
NoParams == [token |-> <<>>, client |-> "", version |-> ""]

\* the handshake parameters without the configured token
HelloParamsNoToken ==
    [token |-> <<>>, client |-> "godot-bridge-cli", version |-> "1.0.0"]

\* {"token": self.config.token, "client": "godot-bridge-cli", "version": "1.0.0"}
HelloParams ==
    [token |-> cfg.token, client |-> "godot-bridge-cli", version |-> "1.0.0"]

IdleFrame == [pc |-> "idle", method |-> HelloMethod, params |-> NoParams,
              tmp |-> 0, reqid |-> <<>>,
              k |-> 0, entryWs |-> NoSocket, io |-> FALSE, disc |-> NoId,
              last |-> NoFrame, out |-> NoOutcome]

NewFrame(m) == [IdleFrame EXCEPT !.pc = "check", !.method = m]

\* the activation of self.call("auth.hello", {...}) in connect()
HelloFrame == [NewFrame(HelloMethod) EXCEPT !.params = HelloParams]

Init ==
    /\ ws = NoSocket
    /\ request_id = InitialRequestId
    /\ authenticated = FALSE
    /\ closes = <<>>
    /\ dead = {}
    /\ sent = <<>>
    /\ frame = [t \in Callers |-> IdleFrame]
    /\ mode \in {"api", "godot_call", "status"}
    /\ pc = IF mode = "api" THEN "idle" ELSE "start"
    /\ connect_result = "none"
    /\ hello = NoOutcome
    /\ rejected = 0
    /\ lastop = "none"
    /\ ncalls = 0
    /\ exit_code = -1
    /\ cfg = LoadConfig(ClientEnv)

(* ---------------------------- call() ---------------------------------- *)
\* call() entered without the test of self.ws
CallCheckNoGuard(t) ==
    /\ frame[t].pc = "check"
    /\ frame' = [frame EXCEPT ![t].pc = "load", ![t].entryWs = ws,
                              ![t].k = ncalls + 1]
    /\ ncalls' = ncalls + 1
    /\ UNCHANGED <<ws, request_id, authenticated, closes, dead, sent, mode, pc,
                   connect_result, hello, rejected, lastop, exit_code, cfg>>

\* if self.ws is None: raise RuntimeError("Not connected to Godot")
CallCheck(t) ==
    /\ frame[t].pc = "check"
    /\ IF ws = NoSocket
       THEN /\ frame' = [frame EXCEPT ![t].pc = "done",
                                      ![t].out = Raised("notconnected")]
            /\ UNCHANGED ncalls
       ELSE /\ frame' = [frame EXCEPT ![t].pc = "load", ![t].entryWs = ws,
                                      ![t].k = ncalls + 1]
            /\ ncalls' = ncalls + 1
    /\ UNCHANGED <<ws, request_id, authenticated, closes, dead, sent, mode, pc,
                   connect_result, hello, rejected, lastop, exit_code, cfg>>

\* self.request_id += 1, the read
CallLoad(t) ==
    /\ frame[t].pc = "load"
    /\ frame' = [frame EXCEPT ![t].pc = "store", ![t].tmp = request_id]
    /\ UNCHANGED <<ws, request_id, authenticated, closes, dead, sent, mode, pc,
                   connect_result, hello, rejected, lastop, ncalls,
                   exit_code, cfg>>

\* the counter written back without the increment
CallStoreNoIncrement(t) ==
    /\ frame[t].pc = "store"
    /\ request_id' = frame[t].tmp
    /\ frame' = [frame EXCEPT ![t].pc = "build"]
    /\ UNCHANGED <<ws, authenticated, closes, dead, sent, mode, pc,
                   connect_result, hello, rejected, lastop, ncalls,
                   exit_code, cfg>>

\* self.request_id += 1, the write
CallStore(t) ==
    /\ frame[t].pc = "store"
    /\ request_id' = frame[t].tmp + 1
    /\ frame' = [frame EXCEPT ![t].pc = "build"]
    /\ UNCHANGED <<ws, authenticated, closes, dead, sent, mode, pc,
                   connect_result, hello, rejected, lastop, ncalls,
                   exit_code, cfg>>

\* a request built with the counter as it was read before the increment
CallBuildSendsOldId(t) ==
    /\ frame[t].pc = "build"
    /\ frame' = [frame EXCEPT ![t].pc = "send", ![t].reqid = Str(frame[t].tmp)]
    /\ UNCHANGED <<ws, request_id, authenticated, closes, dead, sent, mode, pc,
                   connect_result, hello, rejected, lastop, ncalls,
                   exit_code, cfg>>

\* request = {..., "id": str(self.request_id), "method": method, ...}
CallBuild(t) ==
    /\ frame[t].pc = "build"
    /\ frame' = [frame EXCEPT ![t].pc = "send", ![t].reqid = Str(request_id)]
    /\ UNCHANGED <<ws, request_id, authenticated, closes, dead, sent, mode, pc,
                   connect_result, hello, rejected, lastop, ncalls,
                   exit_code, cfg>>

\* a send that drops the connection of the client when it fails
CallSendDropsConnection(t) ==
    /\ frame[t].pc = "send"
    /\ IF ws = NoSocket
       THEN /\ frame' = [frame EXCEPT ![t].pc = "done", ![t].out = Raised("other")]
            /\ UNCHANGED <<ws, authenticated, dead, sent>>
       ELSE \E ok \in IF ws \in dead THEN {FALSE} ELSE BOOLEAN :
            /\ sent' = Append(sent, [sock |-> ws, id |-> frame[t].reqid,
                                     method |-> frame[t].method,
                                     params |-> frame[t].params,
                                     k |-> frame[t].k, caller |-> t, ok |-> ok,
                                     answered |-> FALSE])
            /\ IF ok
               THEN /\ frame' = [frame EXCEPT ![t].pc = "recv", ![t].io = TRUE]
                    /\ UNCHANGED <<ws, authenticated, dead>>
               ELSE /\ frame' = [frame EXCEPT ![t].pc = "done", ![t].io = TRUE,
                                              ![t].out = Raised("transport")]
                    /\ dead' = dead \cup {ws}
                    /\ ws' = NoSocket
                    /\ authenticated' = FALSE
    /\ UNCHANGED <<request_id, closes, mode, pc,
                   connect_result, hello, rejected, lastop, ncalls,
                   exit_code, cfg>>

\* self.ws.send(json.dumps(request)): fails on a socket that already failed,
\* and may fail on any socket
CallSend(t) ==
    /\ frame[t].pc = "send"
    /\ IF ws = NoSocket
       THEN /\ frame' = [frame EXCEPT ![t].pc = "done", ![t].out = Raised("other")]
            /\ UNCHANGED <<dead, sent>>
       ELSE \E ok \in IF ws \in dead THEN {FALSE} ELSE BOOLEAN :
            /\ sent' = Append(sent, [sock |-> ws, id |-> frame[t].reqid,
                                     method |-> frame[t].method,
                                     params |-> frame[t].params,
                                     k |-> frame[t].k, caller |-> t, ok |-> ok,
                                     answered |-> FALSE])
            /\ IF ok
               THEN /\ frame' = [frame EXCEPT ![t].pc = "recv", ![t].io = TRUE]
                    /\ UNCHANGED dead
               ELSE /\ frame' = [frame EXCEPT ![t].pc = "done", ![t].io = TRUE,
                                              ![t].out = Raised("transport")]
                    /\ dead' = dead \cup {ws}
    /\ UNCHANGED <<ws, request_id, authenticated, closes, mode, pc,
                   connect_result, hello, rejected, lastop, ncalls,
                   exit_code, cfg>>

\* a receive that gives up after a while on a socket that works
CallRecvTimeout(t) ==
    /\ frame[t].pc = "recv"
    /\ frame' = [frame EXCEPT ![t].pc = "done", ![t].io = TRUE,
                              ![t].out = Raised("other")]
    /\ UNCHANGED <<ws, request_id, authenticated, closes, dead, sent, mode, pc,
                   connect_result, hello, rejected, lastop, ncalls,
                   exit_code, cfg>>

\* response_text = self.ws.recv() raising
CallRecvFail(t) ==
    /\ frame[t].pc = "recv"
    /\ frame' = [frame EXCEPT ![t].pc = "done", ![t].io = TRUE,
                              ![t].out = IF ws = NoSocket THEN Raised("other")
                                         ELSE Raised("transport")]
    /\ dead' = IF ws = NoSocket THEN dead ELSE dead \cup {ws}
    /\ UNCHANGED <<ws, request_id, authenticated, closes, sent, mode, pc,
                   connect_result, hello, rejected, lastop, ncalls,
                   exit_code, cfg>>

\* a receive loop that skips a frame it cannot parse and goes on waiting
CallRecvSkipsMalformed(t) ==
    /\ frame[t].pc = "recv"
    /\ ws # NoSocket
    /\ ws \notin dead
    /\ \/ frame' = [frame EXCEPT ![t] =
                [@ EXCEPT !.io = TRUE, !.last = MalformedFrame]]
       \/ frame' = [frame EXCEPT ![t] =
                [@ EXCEPT !.pc = "done", !.io = TRUE, !.last = NonObjectFrame,
                          !.out = Raised("other")]]
       \/ \E id \in IdValues :
            IF IdMatches(id, request_id)
            THEN \E f \in ObjectFrames :
                    /\ f.id = id
                    /\ frame' = [frame EXCEPT ![t] =
                            [@ EXCEPT !.pc = "done", !.io = TRUE, !.last = f,
                                      !.out = MatchedOutcome(f)]]
            ELSE frame' = [frame EXCEPT ![t] =
                            [@ EXCEPT !.io = TRUE, !.disc = id]]
    /\ UNCHANGED <<ws, request_id, authenticated, closes, dead, sent, mode, pc,
                   connect_result, hello, rejected, lastop, ncalls,
                   exit_code, cfg>>

\* one turn of the while loop with a frame of Frames received: json.loads, the
\* id test, and the raise/return of a matching frame; the members of an object
\* frame other than its id are read only when the id matched
CallRecv(t) ==
    /\ frame[t].pc = "recv"
    /\ ws # NoSocket
    /\ ws \notin dead
    /\ \/ \E f \in {MalformedFrame, NonObjectFrame} :
            frame' = [frame EXCEPT ![t] =
                [@ EXCEPT !.pc = "done", !.io = TRUE, !.last = f,
                          !.out = IF f.kind = "malformed" THEN Raised("decode")
                                  ELSE Raised("other")]]
       \/ \E id \in IdValues :
            IF IdMatches(id, request_id)
            THEN \E f \in ObjectFrames :
                    /\ f.id = id
                    /\ frame' = [frame EXCEPT ![t] =
                            [@ EXCEPT !.pc = "done", !.io = TRUE, !.last = f,
                                      !.out = MatchedOutcome(f)]]
            ELSE frame' = [frame EXCEPT ![t] =
                            [@ EXCEPT !.io = TRUE, !.disc = id]]
    /\ UNCHANGED <<ws, request_id, authenticated, closes, dead, sent, mode, pc,
                   connect_result, hello, rejected, lastop, ncalls,
                   exit_code, cfg>>

(* ---------------------------- close() --------------------------------- *)
\* close() that forgets self.ws = None
CloseKeepsHandle ==
    IF ws # NoSocket
    THEN /\ closes' = [closes EXCEPT ![ws] = @ + 1]
         /\ authenticated' = FALSE
         /\ UNCHANGED ws
    ELSE UNCHANGED <<ws, authenticated, closes>>

\* close() that forgets self.authenticated = False
CloseKeepsFlag ==
    IF ws # NoSocket
    THEN /\ closes' = [closes EXCEPT ![ws] = @ + 1]
         /\ ws' = NoSocket
         /\ UNCHANGED authenticated
    ELSE UNCHANGED <<ws, authenticated, closes>>

\* if self.ws: self.ws.close(); self.ws = None; self.authenticated = False
Close ==
    IF ws # NoSocket
    THEN /\ closes' = [closes EXCEPT ![ws] = @ + 1]
         /\ ws' = NoSocket
         /\ authenticated' = FALSE
    ELSE UNCHANGED <<ws, authenticated, closes>>

(* ---------------------------- connect() ------------------------------- *)
\* the caller that runs the driving program
MainCaller == CHOOSE t \in Callers : \A u \in Callers : t <= u

\* where the driving program continues when connect() has returned
AfterConnect ==
    IF mode = "api" THEN "idle"
    ELSE IF mode = "godot_call" THEN "gc_call"
    ELSE IF mode = "status" THEN "st_branch" ELSE "fork"

\* the last send() of the driving program
LastSent ==
    IF \E i \in 1..Len(sent) : sent[i].caller = MainCaller
    THEN CHOOSE i \in 1..Len(sent) :
            /\ sent[i].caller = MainCaller
            /\ \A j \in (i + 1)..Len(sent) : sent[j].caller # MainCaller
    ELSE 0

\* connect() that restarts the request counter for the new socket
ConnectOpenResetsCounter ==
    /\ pc = "connect_open"
    /\ ws' = Len(closes) + 1
    /\ closes' = Append(closes, 0)
    /\ request_id' = InitialRequestId
    /\ frame' = [frame EXCEPT ![MainCaller] = HelloFrame]
    /\ pc' = "connect_hello"
    /\ rejected' = 0
    /\ UNCHANGED <<authenticated, dead, sent, mode, connect_result, hello,
                   lastop, ncalls, exit_code, cfg>>

\* self.ws = ws_client.connect(...) returning a socket, then the start of
\* self.call("auth.hello", {...})
ConnectOpen ==
    /\ pc = "connect_open"
    /\ ws' = Len(closes) + 1
    /\ closes' = Append(closes, 0)
    /\ frame' = [frame EXCEPT ![MainCaller] = HelloFrame]
    /\ pc' = "connect_hello"
    /\ rejected' = 0
    /\ UNCHANGED <<request_id, authenticated, dead, sent, mode, connect_result,
                   hello, lastop, ncalls, exit_code, cfg>>

\* ws_client.connect(...) raising: except Exception -> return False
ConnectOpenFail ==
    /\ pc = "connect_open"
    /\ connect_result' = "false"
    /\ hello' = NoOutcome
    /\ lastop' = "connect"
    /\ pc' = AfterConnect
    /\ UNCHANGED <<ws, request_id, authenticated, closes, dead, sent, frame,
                   mode, rejected, ncalls, exit_code, cfg>>

\* the call returned a mapping whose "ok" is truthy; any exception, also the
\* AttributeError of result.get on a non-object, ends in return False
HelloOk(out) ==
    /\ out.kind = "result"
    /\ out.value.kind = "object"
    /\ Truthy(out.value.ok)

\* the call returned a mapping whose "ok" is not truthy: "Authentication failed"
HelloRejected(out) ==
    /\ out.kind = "result"
    /\ out.value.kind = "object"
    /\ ~Truthy(out.value.ok)

\* a failed handshake that also closes the socket
ConnectFailedCloses == Close

\* else: logger.error("Authentication failed"); return False, and
\* except Exception: logger.error(...); return False
ConnectFailed == UNCHANGED <<ws, authenticated, closes>>

\* if result.get("ok"): ... return True / else: return False / except: return False
ConnectAuth ==
    /\ pc = "connect_hello"
    /\ frame[MainCaller].pc = "done"
    /\ LET out == frame[MainCaller].out IN
        /\ hello' = out
        /\ IF HelloOk(out)
           THEN /\ authenticated' = TRUE
                /\ connect_result' = "true"
                /\ UNCHANGED <<ws, closes>>
           ELSE /\ ConnectFailed
                /\ connect_result' = "false"
        /\ rejected' = IF HelloRejected(out) THEN LastSent ELSE 0
    /\ frame' = [frame EXCEPT ![MainCaller] = IdleFrame]
    /\ lastop' = "connect"
    /\ pc' = AfterConnect
    /\ UNCHANGED <<request_id, dead, sent, mode, ncalls, exit_code, cfg>>

(* ------------------- a caller using the client directly ---------------- *)
ApiConnect ==
    /\ mode = "api"
    /\ pc = "idle"
    /\ Len(closes) < MaxSockets
    /\ request_id < MaxReq
    /\ pc' = "connect_open"
    /\ connect_result' = "none"
    /\ hello' = NoOutcome
    /\ UNCHANGED <<ws, request_id, authenticated, closes, dead, sent, frame,
                   mode, rejected, lastop, ncalls, exit_code, cfg>>

ApiCall ==
    /\ mode = "api"
    /\ pc = "idle"
    /\ ws # NoSocket => request_id < MaxReq
    /\ \E m \in Methods :
        frame' = [frame EXCEPT ![MainCaller] = NewFrame(m)]
    /\ pc' = "api_call"
    /\ connect_result' = "none"
    /\ hello' = NoOutcome
    /\ UNCHANGED <<ws, request_id, authenticated, closes, dead, sent, mode,
                   rejected, lastop, ncalls, exit_code, cfg>>

ApiCallReturn ==
    /\ pc = "api_call"
    /\ frame[MainCaller].pc = "done"
    /\ frame' = [frame EXCEPT ![MainCaller] = IdleFrame]
    /\ pc' = "idle"
    /\ lastop' = "call"
    /\ UNCHANGED <<ws, request_id, authenticated, closes, dead, sent, mode,
                   connect_result, hello, rejected, ncalls, exit_code, cfg>>

ApiClose ==
    /\ mode = "api"
    /\ pc = "idle"
    /\ Close
    /\ lastop' = "close"
    /\ connect_result' = "none"
    /\ hello' = NoOutcome
    /\ rejected' = 0
    /\ UNCHANGED <<request_id, dead, sent, frame, mode, pc, ncalls,
                   exit_code, cfg>>

(* ------------- godot_call inside a command (main.py) ------------------- *)
\* client = GodotClient(); __enter__ or status calling client.connect()
Start ==
    /\ mode # "api"
    /\ pc = "start"
    /\ pc' = "connect_open"
    /\ UNCHANGED <<ws, request_id, authenticated, closes, dead, sent, frame,
                   mode, connect_result, hello, rejected, lastop, ncalls,
                   exit_code, cfg>>

\* raw_rpc: json.loads(params) raising; output_error exits 1
RawRpcBadParams ==
    /\ mode = "godot_call"
    /\ pc = "start"
    /\ exit_code' = 1
    /\ pc' = "badparams"
    /\ UNCHANGED <<ws, request_id, authenticated, closes, dead, sent, frame,
                   mode, connect_result, hello, rejected, lastop, ncalls, cfg>>

\* __enter__ ignores what connect() returned: return client.call(method, params)
GcCall ==
    /\ pc = "gc_call"
    /\ \E m \in Methods :
        frame' = [frame EXCEPT ![MainCaller] = NewFrame(m)]
    /\ pc' = "gc_wait"
    /\ UNCHANGED <<ws, request_id, authenticated, closes, dead, sent, mode,
                   connect_result, hello, rejected, lastop, ncalls,
                   exit_code, cfg>>

\* __exit__ closes; the command prints the result, or output_error exits 1
GcExit ==
    /\ pc = "gc_wait"
    /\ frame[MainCaller].pc = "done"
    /\ Close
    /\ exit_code' = IF frame[MainCaller].out.kind = "result" THEN 0 ELSE 1
    /\ pc' = "done"
    /\ rejected' = 0
    /\ UNCHANGED <<request_id, dead, sent, frame, mode, connect_result, hello,
                   lastop, ncalls, cfg>>

(* ---------------------------- status ---------------------------------- *)
\* if client.connect(): ... client.call("project.get_info")
\* else: output_result({"connected": False})
StBranch ==
    /\ pc = "st_branch"
    /\ IF connect_result = "true"
       THEN /\ frame' = [frame EXCEPT ![MainCaller] = NewFrame(InfoMethod)]
            /\ pc' = "st_info"
            /\ UNCHANGED exit_code
       ELSE /\ exit_code' = 0
            /\ pc' = "done"
            /\ UNCHANGED frame
    /\ UNCHANGED <<ws, request_id, authenticated, closes, dead, sent, mode,
                   connect_result, hello, rejected, lastop, ncalls, cfg>>

\* except: pass; client.close(); output_result(result)
StFinish ==
    /\ pc = "st_info"
    /\ frame[MainCaller].pc = "done"
    /\ Close
    /\ exit_code' = 0
    /\ pc' = "done"
    /\ rejected' = 0
    /\ UNCHANGED <<request_id, dead, sent, frame, mode, connect_result, hello,
                   lastop, ncalls, cfg>>

(* ---------------------------- specification --------------------------- *)
Next ==
    \/ CallCheck(MainCaller)
    \/ CallLoad(MainCaller)
    \/ CallStore(MainCaller)
    \/ CallBuild(MainCaller)
    \/ CallSend(MainCaller)
    \/ CallRecvFail(MainCaller)
    \/ CallRecv(MainCaller)
    \/ ConnectOpen
    \/ ConnectOpenFail
    \/ ConnectAuth
    \/ ApiConnect
    \/ ApiCall
    \/ ApiCallReturn
    \/ ApiClose
    \/ Start
    \/ RawRpcBadParams
    \/ GcCall
    \/ GcExit
    \/ StBranch
    \/ StFinish

Spec == Init /\ [][Next]_vars

(* ------------------ one command run to its end ------------------------ *)
\* a command of main.py: godot_call(...) or status
InitCommand == Init /\ mode \in {"godot_call", "status"}

\* the steps the command's thread takes by itself; which branch of a step is
\* taken (a socket opens or not, a send succeeds or not) is up to the server
CommandStep ==
    \/ CallCheck(MainCaller)
    \/ CallLoad(MainCaller)
    \/ CallStore(MainCaller)
    \/ CallBuild(MainCaller)
    \/ CallSend(MainCaller)
    \/ ConnectOpen
    \/ ConnectOpenFail
    \/ ConnectAuth
    \/ Start
    \/ RawRpcBadParams
    \/ GcCall
    \/ GcExit
    \/ StBranch
    \/ StFinish

\* self.ws.recv() returning a frame or raising: up to the server and the
\* transport, recv() itself blocks without limit
ReceiveStep ==
    \/ CallRecvFail(MainCaller)
    \/ CallRecv(MainCaller)

NextCommand == CommandStep \/ ReceiveStep

\* the thread keeps running; nothing is assumed about what is received
SpecCommand == InitCommand /\ [][NextCommand]_vars /\ WF_vars(CommandStep)

(* ------------- two threads calling on one client instance ------------- *)
\* the requests that reached the server on the current socket and that it
\* has not answered yet
Unanswered ==
    {i \in 1..Len(sent) : sent[i].sock = ws /\ sent[i].ok /\ ~sent[i].answered}

\* the response of a server that answers request i with the request's id
ResponseTo(i) ==
    [kind |-> "object", id |-> [t |-> "str", v |-> sent[i].id],
     error |-> AbsentError, result |-> [kind |-> "object", ok |-> "true"]]

\* a receive that gives up when the server has nothing more to send
ConcRecvGivesUp(t) ==
    /\ frame[t].pc = "recv"
    /\ ws # NoSocket
    /\ ws \notin dead
    /\ IF Unanswered = {}
       THEN /\ frame' = [frame EXCEPT ![t].pc = "done", ![t].io = TRUE,
                                      ![t].out = Raised("other")]
            /\ UNCHANGED sent
       ELSE \E i \in Unanswered :
            /\ sent' = [sent EXCEPT ![i].answered = TRUE]
            /\ IF IdMatches(ResponseTo(i).id, request_id)
               THEN frame' = [frame EXCEPT ![t] =
                        [@ EXCEPT !.pc = "done", !.io = TRUE,
                                  !.last = ResponseTo(i),
                                  !.out = MatchedOutcome(ResponseTo(i))]]
               ELSE frame' = [frame EXCEPT ![t] =
                        [@ EXCEPT !.io = TRUE, !.disc = ResponseTo(i).id]]
    /\ UNCHANGED <<ws, request_id, authenticated, closes, dead, mode, pc,
                   connect_result, hello, rejected, lastop, ncalls,
                   exit_code, cfg>>

\* one turn of the while loop of caller t with the next frame of the socket,
\* the server answering each request once: whichever thread is in recv()
\* gets the frame, and the id is compared with str(self.request_id) as the
\* counter stands now
ConcRecv(t) ==
    /\ frame[t].pc = "recv"
    /\ ws # NoSocket
    /\ ws \notin dead
    /\ \E i \in Unanswered :
        /\ sent' = [sent EXCEPT ![i].answered = TRUE]
        /\ IF IdMatches(ResponseTo(i).id, request_id)
           THEN frame' = [frame EXCEPT ![t] =
                    [@ EXCEPT !.pc = "done", !.io = TRUE,
                              !.last = ResponseTo(i),
                              !.out = MatchedOutcome(ResponseTo(i))]]
           ELSE frame' = [frame EXCEPT ![t] =
                    [@ EXCEPT !.io = TRUE, !.disc = ResponseTo(i).id]]
    /\ UNCHANGED <<ws, request_id, authenticated, closes, dead, mode, pc,
                   connect_result, hello, rejected, lastop, ncalls,
                   exit_code, cfg>>

\* recv() of caller t raising on a socket that has failed
ConcRecvFail(t) ==
    /\ ws \in dead
    /\ CallRecvFail(t)

\* a connected client is handed to two threads, each calls call() once
ConcFork ==
    /\ pc = "fork"
    /\ IF connect_result = "true"
       THEN /\ frame' = [t \in Callers |-> NewFrame(InfoMethod)]
            /\ pc' = "join"
       ELSE /\ pc' = "done"
            /\ UNCHANGED frame
    /\ UNCHANGED <<ws, request_id, authenticated, closes, dead, sent, mode,
                   connect_result, hello, rejected, lastop, ncalls,
                   exit_code, cfg>>

\* both calls have ended: client.close()
ConcJoin ==
    /\ pc = "join"
    /\ \A t \in Callers : frame[t].pc = "done"
    /\ Close
    /\ pc' = "done"
    /\ rejected' = 0
    /\ UNCHANGED <<request_id, dead, sent, frame, mode, connect_result, hello,
                   lastop, ncalls, exit_code, cfg>>

InitConc ==
    /\ ws = NoSocket
    /\ request_id = InitialRequestId
    /\ authenticated = FALSE
    /\ closes = <<>>
    /\ dead = {}
    /\ sent = <<>>
    /\ frame = [t \in Callers |-> IdleFrame]
    /\ mode = "conc"
    /\ pc = "start"
    /\ connect_result = "none"
    /\ hello = NoOutcome
    /\ rejected = 0
    /\ lastop = "none"
    /\ ncalls = 0
    /\ exit_code = -1
    /\ cfg = LoadConfig(ClientEnv)

NextConc ==
    \/ Start
    \/ ConnectOpen
    \/ ConnectOpenFail
    \/ ConnectAuth
    \/ ConcFork
    \/ ConcJoin
    \/ \E t \in Callers :
        \/ CallCheck(t)
        \/ CallLoad(t)
        \/ CallStore(t)
        \/ CallBuild(t)
        \/ CallSend(t)
        \/ ConcRecv(t)
        \/ ConcRecvFail(t)

SpecConc == InitConc /\ [][NextConc]_vars

(* ------------------ the configuration loader on its own ---------------- *)
\* before GodotClient(): any environment
InitConfig ==
    /\ ws = NoSocket
    /\ request_id = InitialRequestId
    /\ authenticated = FALSE
    /\ closes = <<>>
    /\ dead = {}
    /\ sent = <<>>
    /\ frame = [t \in Callers |-> IdleFrame]
    /\ mode = "config"
    /\ pc = "new"
    /\ connect_result = "none"
    /\ hello = NoOutcome
    /\ rejected = 0
    /\ lastop = "none"
    /\ ncalls = 0
    /\ exit_code = -1
    /\ cfg \in {[st |-> "env", env |-> e, ws_url |-> e.ws_url, token |-> e.token] :
                e \in Envs}

\* self.config = config or self._load_config()
NewClient ==
    /\ mode = "config"
    /\ pc = "new"
    /\ cfg.st = "env"
    /\ cfg' = LoadConfig(cfg.env)
    /\ pc' = IF cfg'.st = "raised" THEN "raised" ELSE "idle"
    /\ UNCHANGED <<ws, request_id, authenticated, closes, dead, sent, frame,
                   mode, connect_result, hello, rejected, lastop, ncalls,
                   exit_code>>

NextConfig == NewClient

SpecConfig == InitConfig /\ [][NextConfig]_vars

(* ---------------------------- properties ------------------------------ *)
\* the id a call() activation put into its request, as the frame id it awaits
Awaited(t) == [t |-> "str", v |-> frame[t].reqid]

\* the call() of caller t was ended by a JSON object frame
EndedByFrame(t) == frame[t].pc = "done" /\ frame[t].last.kind = "object"

\* C1: for a single caller, the k-th call() that finds a connection sends a
\* request whose id is the decimal string of the initial counter value plus k,
\* and the instance never sends one id twice, whatever the earlier calls
\* ended with.
C1_IdIsInitialPlusK ==
    /\ \A i \in 1..Len(sent) : sent[i].id = Str(InitialRequestId + sent[i].k)
    /\ \A i, j \in 1..Len(sent) : i # j => sent[i].id # sent[j].id

\* three requests were sent, the first one lost to a transport failure
C1_Witness ==
    /\ Len(sent) >= 3
    /\ ~sent[1].ok
    /\ sent[3].id = <<3>>

\* C2 as stated: a frame with the awaited id and an error object ends call()
\* with an RPC Failure carrying exactly that object's code, message and data;
\* any other frame with the awaited id makes call() return the frame's result,
\* or an empty mapping when result is omitted.
C2_ExactErrorOrResult ==
    \A t \in Callers : EndedByFrame(t) =>
        LET f == frame[t].last
            o == frame[t].out
        IN IF f.error.kind = "object"
           THEN /\ o.kind = "rpc"
                /\ {o.code} = f.error.code
                /\ {o.message} = f.error.message
                /\ o.data = f.error.data
           ELSE /\ o.kind = "result"
                /\ o.value = IF f.result.kind = "absent" THEN EmptyMapping
                             ELSE f.result

\* C2 amended: a frame with the awaited id whose error member is an object
\* ends call() with an RPC Failure carrying that object's code, message and
\* data, with -1 for a missing code, "Unknown error" for a missing message and
\* no data for missing data; an error member that is not an object ends call()
\* with another exception; a frame without error member makes call() return
\* its result, or an empty mapping when result is omitted.
C2_ErrorWithDefaultsOrResult ==
    \A t \in Callers : EndedByFrame(t) =>
        LET f == frame[t].last
            o == frame[t].out
        IN  /\ f.error.kind = "object" =>
                /\ o.kind = "rpc"
                /\ f.error.code = {} => o.code = -1
                /\ f.error.code # {} => o.code \in f.error.code
                /\ f.error.message = {} => o.message = "Unknown error"
                /\ f.error.message # {} => o.message \in f.error.message
                /\ o.data = f.error.data
            /\ f.error.kind = "nonobject" => o.kind = "other"
            /\ f.error.kind = "absent" =>
                /\ o.kind = "result"
                /\ f.result.kind = "absent" => o.value = EmptyMapping
                /\ f.result.kind # "absent" => o.value = f.result

\* a matching frame with both a result and an error object that lacks its code
C2_Witness ==
    \E t \in Callers :
        /\ EndedByFrame(t)
        /\ frame[t].last.error.kind = "object"
        /\ frame[t].last.error.code = {}
        /\ frame[t].last.result.kind = "object"
        /\ frame[t].out.kind = "rpc"

\* a turn of the receive loop of caller t that discarded a frame
Discards(t) ==
    /\ frame[t].pc = "recv"
    /\ frame'[t].disc # frame[t].disc

\* C3: while call() waits, a JSON object frame whose id is not the awaited id
\* (smaller, larger, absent, of another type) is discarded: it never ends the
\* call, and discarding it leaves the request counter, the authenticated flag
\* and the connection handle as they were and the call still waiting.
C3_MismatchDiscarded ==
    /\ [](\A t \in Callers : EndedByFrame(t) => frame[t].last.id = Awaited(t))
    /\ [][\A t \in Callers : Discards(t) =>
            /\ UNCHANGED <<ws, request_id, authenticated>>
            /\ frame'[t].pc = "recv"
            /\ frame'[t].out = NoOutcome
            /\ frame'[t].reqid = frame[t].reqid
            /\ frame'[t].disc # Awaited(t)]_vars

\* a call returned a result after it discarded a frame whose id was the
\* number with the digits of the awaited string id
C3_Witness ==
    \E t \in Callers :
        /\ EndedByFrame(t)
        /\ frame[t].out.kind = "result"
        /\ frame[t].disc.t = "int"
        /\ frame[t].disc.v = frame[t].reqid

\* a step that leaves call()'s entry test
EntersCall(t) == frame[t].pc = "check" /\ frame'[t].pc # "check"

\* C5: the client has no connection handle when it never connected and after
\* close(); call() entered without a handle ends at once with NotConnected,
\* having sent and received nothing on any socket.
C5_NotConnectedNoIO ==
    /\ [](mode = "api" /\ pc \in {"idle", "api_call"}
            /\ (Len(closes) = 0 \/ lastop = "close") => ws = NoSocket)
    /\ [](\A t \in Callers : frame[t].out.kind = "notconnected" => ~frame[t].io)
    /\ [][\A t \in Callers : EntersCall(t) /\ ws = NoSocket =>
            /\ frame'[t].pc = "done"
            /\ frame'[t].out = Raised("notconnected")
            /\ UNCHANGED <<ws, request_id, authenticated, sent, dead, closes>>]_vars

\* a call made after close() on a client that had been connected
C5_Witness ==
    /\ Len(closes) > 0
    /\ lastop = "close"
    /\ frame[MainCaller].pc = "done"
    /\ frame[MainCaller].out.kind = "notconnected"

\* connect() has returned to the driving program, which has not moved on
ConnectReturned == connect_result # "none" /\ pc = AfterConnect

\* C4: after connect() whose auth.hello call returned a result, the
\* authenticated flag is true exactly if that result had ok equal to true; for
\* every other result the flag is false and connect() reported failure.
C4_AuthenticatedIffOkTrue ==
    ConnectReturned /\ hello.kind = "result" =>
        LET okTrue == hello.value.kind = "object" /\ hello.value.ok = "true"
        IN  /\ authenticated <=> okTrue
            /\ ~okTrue => connect_result = "false"

\* the requests sent on socket s, as indices of sent
SentOn(s) == {i \in 1..Len(sent) : sent[i].sock = s}

\* C6 as stated: on every connection the instance opens, the first request
\* sent carries id "1" and every later request a strictly larger decimal id.
C6_EveryConnectionStartsAtOne ==
    \A s \in 1..Len(closes) :
        /\ \A i \in SentOn(s) :
            (\A j \in SentOn(s) : i <= j) => sent[i].id = <<1>>
        /\ \A i, j \in SentOn(s) : i < j => Num(sent[i].id) < Num(sent[j].id)

\* C6 amended: the first request on the first connection the instance opens
\* carries id "1"; on every connection, also one opened by a repeated
\* connect(), every later request carries a strictly larger decimal id; the
\* first request on a later connection carries the next id of the instance,
\* which is larger than every id sent before, and not "1".
C6_IncreasingPerConnection ==
    /\ Len(sent) > 0 => sent[1].sock = 1 /\ sent[1].id = <<1>>
    /\ \A s \in 1..Len(closes) :
        \A i, j \in SentOn(s) : i < j => Num(sent[i].id) < Num(sent[j].id)
    /\ \A i, j \in 1..Len(sent) :
        i < j /\ sent[i].sock < sent[j].sock => Num(sent[i].id) < Num(sent[j].id)

\* two connections, the first one used for two requests, the second for one
C6_Witness ==
    /\ Len(sent) >= 3
    /\ sent[1].sock = 1
    /\ sent[2].sock = 1
    /\ sent[3].sock = 2

\* C7: when the operation using the client has ended - the with-block of
\* godot_call, the status command, a connect() repeated on the instance -
\* every socket connect() opened has been closed exactly once.
C7_EverySocketClosedOnce ==
    /\ mode \in {"godot_call", "status"} /\ pc = "done" =>
        \A s \in 1..Len(closes) : closes[s] = 1
    /\ mode = "api" /\ ConnectReturned =>
        \A s \in 1..Len(closes) : s # ws => closes[s] = 1

\* a step that runs close(): of the API caller, of __exit__, of status
ClosesStep ==
    \/ mode = "api" /\ pc = "idle" /\ pc' = "idle"
    \/ pc \in {"gc_wait", "st_info"} /\ pc' = "done"

\* C8: close() leaves the client without handle and not authenticated, leaves
\* a client that is already closed or was never connected exactly as it is,
\* and no socket has its close invoked more than once.
C8_CloseIdempotent ==
    /\ [](\A s \in 1..Len(closes) : closes[s] <= 1)
    /\ [][ClosesStep =>
            /\ ws' = NoSocket
            /\ authenticated' = FALSE
            /\ ws = NoSocket => UNCHANGED <<ws, request_id, authenticated, closes>>
            /\ ws # NoSocket => closes' = [closes EXCEPT ![ws] = 1]
            /\ mode = "api" => lastop' = "close"]_vars

\* close() called again on a client that close() had already disconnected
C8_Witness ==
    /\ lastop = "close"
    /\ Len(closes) = 2
    /\ closes[1] = 1
    /\ closes[2] = 1
    /\ ws = NoSocket
    /\ ~authenticated

\* C9: whenever connect() reported failure, the authenticated flag is false
\* afterwards, also on an instance an earlier connect() had authenticated.
C9_FailedConnectNotAuthenticated ==
    ConnectReturned /\ connect_result = "false" => ~authenticated

\* C10: after a handshake answered with ok absent or false, connect() has
\* reported failure, the handle is still the socket of that handshake, that
\* socket has not been closed, and every later call() of the instance is sent
\* on it with the next id.
C10_RejectedKeepsSocket ==
    rejected # 0 =>
        LET s == sent[rejected].sock IN
        /\ sent[rejected].method = HelloMethod
        /\ ws = s
        /\ closes[s] = 0
        /\ connect_result # "true"
        /\ lastop = "connect" /\ pc = AfterConnect => connect_result = "false"
        /\ \A j \in (rejected + 1)..Len(sent) :
            /\ sent[j].sock = s
            /\ Num(sent[j].id) = Num(sent[rejected].id) + (j - rejected)

\* auth.hello was retried on the socket of the rejected handshake and sent
C10_Witness ==
    /\ rejected # 0
    /\ Len(sent) > rejected
    /\ sent[Len(sent)].method = HelloMethod
    /\ sent[Len(sent)].ok
    /\ sent[Len(sent)].sock = sent[rejected].sock

\* _load_config has run, for the environment cfg.env
ConfigDone == cfg.st \in {"loaded", "raised"}

\* the token file is named, exists, and no explicit token keeps it from
\* being read
FileConsulted(e) == e.token = <<>> /\ e.token_file # "" /\ e.exists

\* C15: the resolved token is the explicit token if one is supplied;
\* otherwise the token member of a JSON token file; otherwise the trimmed
\* content of a token file that is not a JSON object; otherwise empty.
C15_TokenPrecedence ==
    ConfigDone =>
        LET e == cfg.env IN
        /\ cfg.st = "loaded"
        /\ cfg.token =
            IF e.token # <<>> THEN e.token
            ELSE IF ~FileConsulted(e) THEN <<>>
            ELSE IF e.body.json = "object" /\ e.body.token # {}
                 THEN CHOOSE k \in e.body.token : TRUE
            ELSE IF e.body.json # "object" THEN e.body.chars
            ELSE <<>>

\* C16: when a JSON token file carries a port, the resolved endpoint has that
\* port and the scheme and host of the configured endpoint; when the file
\* carries no port the endpoint is the configured one.
C16_PortKeepsSchemeAndHost ==
    cfg.st = "loaded" =>
        LET e == cfg.env
            filePort == IF FileConsulted(e) /\ e.body.json = "object"
                        THEN e.body.port ELSE {}
        IN  /\ \A q \in filePort : cfg.ws_url = [e.ws_url EXCEPT !.port = q]
            /\ filePort = {} => cfg.ws_url = e.ws_url

\* C17: for a token file whose content is not a JSON object, whether it fails
\* to parse as JSON or parses as a scalar or array, the loader completes and
\* the resolved token is the whole trimmed content of the file.
C17_NonObjectFileIsToken ==
    ConfigDone /\ FileConsulted(cfg.env) /\ cfg.env.body.json # "object" =>
        /\ cfg.st = "loaded"
        /\ cfg.token = cfg.env.body.chars

(* ------------------------ failures and exits --------------------------- *)
\* the command has ended: godot_call returned or raised and __exit__ ran
CommandEnded == mode = "godot_call" /\ pc = "done"

\* the first failure of a godot_call run, as the class a caller is to see:
\* "connect" when the socket could not be opened, "authrejected" when the
\* handshake was answered without a truthy ok, else the failure that ended
\* the handshake call, else the outcome of the method call itself
FirstFailure ==
    IF connect_result = "false"
    THEN IF hello = NoOutcome THEN Raised("connect")
         ELSE IF HelloRejected(hello) THEN Raised("authrejected")
         ELSE IF hello.kind = "result" THEN Raised("other")
         ELSE hello
    ELSE frame[MainCaller].out

\* C11: the failure a caller of godot_call observes is the first failure that
\* occurred, with its class (and code, message and data of an RPC failure): a
\* socket that cannot be opened is seen as a connection failure, a rejected
\* handshake as an authentication failure.
C11_FailureClassPreserved ==
    CommandEnded => frame[MainCaller].out = FirstFailure

\* C12: a frame that is not valid JSON, received while call() waits, ends the
\* call with a decode failure whatever was discarded before, and the call
\* stays ended with that failure: it receives no further frame and returns
\* no result.
C12_MalformedEndsCall ==
    /\ [](\A t \in Callers : frame[t].last.kind = "malformed" =>
            /\ frame[t].pc = "done"
            /\ frame[t].out = Raised("decode"))
    /\ [][\A t \in Callers : frame[t].last.kind = "malformed" =>
            \/ frame'[t] = frame[t]
            \/ frame'[t] = IdleFrame]_vars

C12_Witness ==
    \E t \in Callers :
        /\ frame[t].pc = "done"
        /\ frame[t].last.kind = "malformed"
        /\ frame[t].out.kind = "decode"
        /\ frame[t].disc # NoId
        /\ frame[t].method = InfoMethod

\* C18: a command ends with exit code 0 only when it obtained its result: the
\* connection was established and, for a command built on godot_call, the
\* call returned; every other run ends with a non-zero exit code.
C18_ZeroExitOnlyOnResult ==
    exit_code = 0 =>
        /\ connect_result = "true"
        /\ mode = "godot_call" => frame[MainCaller].out.kind = "result"

\* the requests sent on socket s, as indices of sent
SentOnSocket(s) == {i \in 1..Len(sent) : sent[i].sock = s}

\* C19: on every socket the first request sent is auth.hello with the
\* configured token, the client identity and the client version, and while
\* the handshake call is running nothing else has been sent on the socket.
C19_HelloFirst ==
    /\ \A s \in 1..Len(closes) : \A i \in SentOnSocket(s) :
            (\A j \in SentOnSocket(s) : i <= j) =>
                /\ sent[i].method = HelloMethod
                /\ sent[i].params = [token |-> cfg.token,
                                     client |-> "godot-bridge-cli",
                                     version |-> "1.0.0"]
    /\ pc = "connect_hello" =>
            /\ Cardinality(SentOnSocket(ws)) <= 1
            /\ \A i \in SentOnSocket(ws) : sent[i].method = HelloMethod

C19_Witness ==
    /\ pc = "connect_hello"
    /\ ws = 2
    /\ frame[MainCaller].pc = "recv"
    /\ SentOnSocket(1) # {}
    /\ Cardinality(SentOnSocket(2)) = 1

\* C20: when connect() has failed with the socket open (the handshake call
\* ran and did not produce a truthy ok), godot_call gets no request onto the
\* socket but the handshake request.
C20_NoRequestWithoutHandshake ==
    mode = "godot_call" /\ connect_result = "false" /\ hello # NoOutcome =>
        \A i \in 1..Len(sent) : sent[i].ok => sent[i].k = 1

(* ---------------------------- termination ------------------------------ *)
\* caller t waits in the receive loop
Waiting(t) == frame[t].pc = "recv"

\* a receive that ends the wait of caller t: a frame with the awaited id, a
\* frame that cannot be read as a JSON object, or a failure of the transport
EndingReceive(t) ==
    /\ CallRecv(t) \/ CallRecvFail(t)
    /\ frame'[t].pc = "done"

\* C13: a waiting call() ends only by receiving a frame with the awaited id,
\* by receiving a frame it cannot read, or by a failure of the transport,
\* never by the passing of time; and when such a receive eventually happens
\* the call eventually ends.
C13_EndsOnlyByDelivery ==
    /\ [][\A t \in Callers : Waiting(t) /\ ~Waiting(t)' =>
            \/ frame'[t].last.kind \in {"malformed", "nonobject"}
            \/ /\ frame'[t].last.kind = "object"
               /\ frame'[t].last.id = Awaited(t)
            \/ ws \in dead']_vars
    /\ WF_vars(EndingReceive(MainCaller)) =>
            (Waiting(MainCaller) ~> frame[MainCaller].pc = "done")

\* the information call of status ended by the frame with its id after a
\* frame with another id
C13_Witness ==
    /\ mode = "status"
    /\ pc = "st_info"
    /\ EndedByFrame(MainCaller)
    /\ frame[MainCaller].last.id = Awaited(MainCaller)
    /\ frame[MainCaller].disc.t = "str"

(* ---------------------------- two callers ------------------------------ *)
\* caller t waits, the server has answered every request it got, no other
\* caller is about to send one, and the socket works
Blocked(t) ==
    /\ Waiting(t)
    /\ Unanswered = {}
    /\ ws \notin dead
    /\ \A u \in Callers \ {t} : frame[u].pc \in {"idle", "recv", "done"}

\* C14: with two unsynchronized callers and a server that answers every
\* request once with the request's id, a caller whose response was received
\* and discarded waits with nothing left to receive, and from then on it
\* never leaves the wait.
C14_BlockedForever ==
    /\ [](\A t \in Callers : Blocked(t) =>
            \E u \in Callers : frame[u].disc # NoId)
    /\ [][\A t \in Callers : Blocked(t) =>
            /\ Blocked(t)'
            /\ frame'[t] = frame[t]]_vars

\* caller u discarded the response to the request of caller t and returned
\* with its own; t is blocked
C14_Witness ==
    \E t \in Callers : \E u \in Callers \ {t} :
        /\ Blocked(t)
        /\ frame[u].pc = "done"
        /\ frame[u].out.kind = "result"
        /\ frame[u].disc = Awaited(t)
        /\ frame[u].reqid # frame[t].reqid

(* ---------------------- correlation and frame effects ------------------ *)
\* C21: for a single caller, a call() that returned a value or raised an RPC
\* failure was ended by a JSON object frame whose id is the id of the request
\* this call sent, an id no earlier request of the instance carried, and the
\* value or failure is the one of that frame.
C21_OutcomeFromOwnFrame ==
    \A t \in Callers :
        frame[t].pc = "done" /\ frame[t].out.kind \in {"result", "rpc"} =>
            /\ frame[t].last.kind = "object"
            /\ \E i \in 1..Len(sent) :
                /\ sent[i].caller = t
                /\ sent[i].k = frame[t].k
                /\ sent[i].ok
                /\ frame[t].last.id = [t |-> "str", v |-> sent[i].id]
                /\ \A j \in 1..(i - 1) : sent[j].id # sent[i].id
            /\ frame[t].out.kind = "result" =>
                /\ frame[t].last.error.kind = "absent"
                /\ frame[t].out.value =
                        IF frame[t].last.result.kind = "absent" THEN EmptyMapping
                        ELSE frame[t].last.result
            /\ frame[t].out.kind = "rpc" =>
                /\ frame[t].last.error.kind = "object"
                /\ frame[t].out.data = frame[t].last.error.data

\* a later call returned a result after it discarded a frame that carries the
\* id of an earlier request of the instance
C21_Witness ==
    /\ frame[MainCaller].pc = "done"
    /\ frame[MainCaller].out.kind = "result"
    /\ frame[MainCaller].method = InfoMethod
    /\ \E j \in 1..Len(sent) :
        /\ sent[j].k < frame[MainCaller].k
        /\ sent[j].ok
        /\ frame[MainCaller].disc = [t |-> "str", v |-> sent[j].id]

\* C22: with two callers on one instance, the requests sent on a socket carry
\* pairwise distinct ids, and a waiting call compares the frames it receives
\* with the id of the request it sent itself.
C22_DistinctIdsOwnComparison ==
    /\ \A i, j \in 1..Len(sent) :
            i # j /\ sent[i].sock = sent[j].sock => sent[i].id # sent[j].id
    /\ \A t \in Callers : Waiting(t) => Str(request_id) = frame[t].reqid

\* C23: whenever the authenticated flag is true a handle is present, and
\* when close() has returned the handle is absent and the flag is false.
C23_AuthenticatedHasHandle ==
    /\ authenticated => ws # NoSocket
    /\ mode = "api" /\ pc = "idle" /\ lastop = "close" =>
            ws = NoSocket /\ ~authenticated
    /\ mode = "godot_call" /\ pc = "done" =>
            ws = NoSocket /\ ~authenticated

\* close() has returned on the second socket of the instance, after a
\* handshake on it
C23_Witness ==
    /\ mode = "api"
    /\ pc = "idle"
    /\ lastop = "close"
    /\ Len(closes) = 2
    /\ closes[2] = 1
    /\ \E i \in 1..Len(sent) : sent[i].sock = 2 /\ sent[i].ok

\* caller t is inside call()
InCall(t) == frame[t].pc \in {"check", "load", "store", "build", "send", "recv"}

\* C24: no step of call() changes the handle or the authenticated flag; the
\* request counter changes in one step only, by one, so a call that found a
\* handle leaves it at its value at entry plus one, and a call rejected as
\* not connected does not change it.
C24_CallFrameEffect ==
    /\ [](\A t \in Callers :
            frame[t].pc \in {"build", "send", "recv", "done"} /\ frame[t].k > 0 =>
                request_id = frame[t].tmp + 1)
    /\ [][\A t \in Callers : InCall(t) =>
            /\ ws' = ws
            /\ authenticated' = authenticated
            /\ frame[t].pc = "load" => frame'[t].tmp = request_id
            /\ frame[t].pc # "store" => request_id' = request_id
            /\ frame'[t].out.kind = "notconnected" =>
                    frame[t].pc = "check" /\ ws = NoSocket]_vars

\* a call on an authenticated connection ended by a failure of the transport
C24_Witness ==
    /\ frame[MainCaller].pc = "done"
    /\ frame[MainCaller].out.kind = "transport"
    /\ frame[MainCaller].method = InfoMethod
    /\ authenticated
    /\ ws # NoSocket
    /\ request_id = frame[MainCaller].tmp + 1

====
